---- MODULE Spec2Model ----
(***************************************************************************)
(* Model of specs-hierarchy (src/src/lib.rs): the Hierarchy<P> resource,   *)
(* its maintain() pass and the world around it (entity liveness, the       *)
(* flagged Parent storage and its ComponentEvent channel).                 *)
(*                                                                         *)
(* An Entity is modelled by its id: entity ids are not reused within the   *)
(* modelled window (the allocator and its generation counter are outside   *)
(* the crate).  Positions are 0-based as in the source; the element at     *)
(* position i of a vector v is v[i + 1].                                   *)
(***************************************************************************)
EXTENDS Integers, Sequences, FiniteSets, TLC

\* ---------------------------------------------------------------- bounds
NumEntities == 4      \* entities created in the world of Spec
MaxEntities == 7      \* entity ids; the world of SpecChain creates them all
MaxOps == 2           \* world operations (link writes, deletions) after the set-up

Entity == 1..MaxEntities
None == 0             \* Option::None
USIZE_MAX == 2147483647

\* ------------------------------------------------- std collections helpers
Has(m, k) == k \in DOMAIN m
Put(m, k, v) == [x \in (DOMAIN m) \cup {k} |-> IF x = k THEN v ELSE m[x]]
Del(m, k) == [x \in (DOMAIN m) \ {k} |-> m[x]]
EmptyMap == [x \in {} |-> None]

RemoveAt(s, i) == SubSeq(s, 1, i) \o SubSeq(s, i + 2, Len(s))
InsertAt(s, i, x) == SubSeq(s, 1, i) \o <<x>> \o SubSeq(s, i + 1, Len(s))
Contains(s, x) == \E i \in 1..Len(s) : s[i] = x
\* iter().position(|e| *e == x): first 0-based position of x, else -1
Position(s, x) ==
  IF Contains(s, x)
  THEN (CHOOSE i \in 1..Len(s) : s[i] = x /\ \A j \in 1..(i - 1) : s[j] # x) - 1
  ELSE -1
\* Vec::swap_remove: the last element takes the place of the removed one
SwapRemove(s, pos) ==
  IF pos = Len(s) - 1
  THEN SubSeq(s, 1, Len(s) - 1)
  ELSE SubSeq([s EXCEPT ![pos + 1] = s[Len(s)]], 1, Len(s) - 1)
\* SetMin taking the largest member
SetMin_Largest(S) == CHOOSE m \in S : \A x \in S : m >= x
SetMin(S) == CHOOSE m \in S : \A x \in S : m <= x
\* the orders in which a HashSet may be iterated
Orderings(S) ==
  {s \in [1..Cardinality(S) -> S] : \A a \in S : \E i \in 1..Cardinality(S) : s[i] = a}

\* ------------------------------------------------------------------ state
VARIABLES
  world,             \* EntitiesRes: the entities created so far
  alive,             \* EntitiesRes: the entities that are alive
  parents,           \* Parent storage: entity -> parent entity, None without component
  channel,           \* ComponentEvent channel: ids flagged since the last read
  sorted, entities, children, current_parent, external_parents,
  changed,           \* HierarchyEvents written by maintain() and not yet drained
  fault,             \* "none", or the panic that ended the program
  ops,               \* world operations so far
  last               \* what the maintain() call that just returned started from

index == <<sorted, entities, children, current_parent, external_parents>>

vars == <<world, alive, parents, channel, sorted, entities, children, current_parent,
          external_parents, changed, fault, ops, last>>

EmptyChannel == [inserted |-> {}, modified |-> {}, removed |-> {}]

\* no maintain() call has returned since the world last changed
NoCall ==
  [called |-> FALSE, sorted |-> <<>>, entities |-> EmptyMap, children |-> EmptyMap,
   current_parent |-> EmptyMap, external_parents |-> {},
   inserted |-> {}, modified |-> {}, removed |-> {}, alive |-> {}, parents |-> EmptyMap]

\* the index, the bit sets, the liveness and the links a call starts from
Snapshot ==
  [called |-> TRUE, sorted |-> sorted, entities |-> entities, children |-> children,
   current_parent |-> current_parent, external_parents |-> external_parents,
   inserted |-> channel.inserted, modified |-> channel.modified,
   removed |-> channel.removed, alive |-> alive, parents |-> parents]

\* ------------------------------------------------------ the world around
\* the parent-link relation of the storage has no cycle
RECURSIVE ReachesVia(_, _, _, _)
ReachesVia(link, from, target, fuel) ==
  IF fuel = 0 \/ ~Has(link, from) THEN FALSE
  ELSE IF link[from] = None THEN FALSE
  ELSE IF link[from] = target THEN TRUE
  ELSE ReachesVia(link, link[from], target, fuel - 1)
Acyclic(link) == \A e \in Entity : ~ReachesVia(link, e, e, MaxEntities)

\* The world has been populated (create_entity().with(Parent { .. }).build(),
\* or parents.insert on a fresh entity) and the system has been set up, but has
\* not run yet: the links are flagged as inserted, the index is empty.
Init ==
  /\ world = 1..NumEntities
  /\ alive = world
  /\ parents \in [Entity -> world \cup {None}]
  /\ \A e \in Entity \ world : parents[e] = None
  /\ Acyclic(parents)
  /\ channel = [inserted |-> {e \in Entity : parents[e] # None},
                modified |-> {}, removed |-> {}]
  /\ sorted = <<>>
  /\ entities = EmptyMap
  /\ children = EmptyMap
  /\ current_parent = EmptyMap
  /\ external_parents = {}
  /\ changed = <<>>
  /\ fault = "none"
  /\ ops = 0
  /\ last = NoCall

\* A world operation happens between two system runs: the subscribers have
\* drained the hierarchy events of the run before.  The caller never builds
\* a cycle of links.
WorldStep(e) ==
  /\ fault = "none"
  /\ ops < MaxOps
  /\ e \in alive
  /\ ops' = ops + 1
  /\ changed' = <<>>
  /\ last' = NoCall
  /\ UNCHANGED <<world, index, fault>>

\* Storage::insert on an entity without the component: ComponentEvent::Inserted
InsertParent(e, p) ==
  /\ WorldStep(e)
  /\ p \in world
  /\ parents[e] = None
  /\ Acyclic([parents EXCEPT ![e] = p])
  /\ parents' = [parents EXCEPT ![e] = p]
  /\ channel' = [channel EXCEPT !.inserted = @ \cup {e}]
  /\ UNCHANGED alive

\* Storage::insert over an existing component, or get_mut: ComponentEvent::Modified
ModifyParent(e, p) ==
  /\ WorldStep(e)
  /\ p \in world
  /\ parents[e] # None
  /\ Acyclic([parents EXCEPT ![e] = p])
  /\ parents' = [parents EXCEPT ![e] = p]
  /\ channel' = [channel EXCEPT !.modified = @ \cup {e}]
  /\ UNCHANGED alive

\* Storage::remove: ComponentEvent::Removed
RemoveParent(e) ==
  /\ WorldStep(e)
  /\ parents[e] # None
  /\ parents' = [parents EXCEPT ![e] = None]
  /\ channel' = [channel EXCEPT !.removed = @ \cup {e}]
  /\ UNCHANGED alive

\* World::delete_entity: the entity dies and its components are removed
DeleteEntity(e) ==
  /\ WorldStep(e)
  /\ alive' = alive \ {e}
  /\ parents' = [parents EXCEPT ![e] = None]
  /\ channel' = IF parents[e] # None
                THEN [channel EXCEPT !.removed = @ \cup {e}]
                ELSE channel

\* ------------------------------------------------------ Hierarchy::maintain
\* The index while maintain() runs: the fields of Hierarchy, the events
\* written by this call, the local min_index and the panic, if one happened.
Work ==
  [sorted |-> sorted, entities |-> entities, children |-> children,
   current_parent |-> current_parent, external_parents |-> external_parents,
   scratch_set |-> {}, changed |-> <<>>, min_index |-> USIZE_MAX, fault |-> "none"]

Panic(h, what) == [h EXCEPT !.fault = what]

\* for i in from..to { entities.insert(sorted[i].id(), i) }
RECURSIVE ReindexRange(_, _, _, _)
ReindexRange(ents, srt, i, to) ==
  IF i >= to THEN ents
  ELSE ReindexRange(Put(ents, srt[i + 1], i), srt, i + 1, to)

\* PurgeSet with the liveness test of the external parents inverted
PurgeSet_LiveTaken(h, rem, live) ==
  LET ids == {id \in rem : Has(h.entities, id)}
  IN IF \E id \in ids : h.entities[id] >= Len(h.sorted)
     THEN Panic(h, "sorted[index]: index out of bounds")
     ELSE [h EXCEPT !.scratch_set =
             {h.sorted[h.entities[id] + 1] : id \in ids}
               \cup {e \in h.external_parents : e \in live}]

\* the purge set: removed ids resolved through the position index, and the
\* external parents that are no longer alive
PurgeSet(h, rem, live) ==
  LET ids == {id \in rem : Has(h.entities, id)}
  IN IF \E id \in ids : h.entities[id] >= Len(h.sorted)
     THEN Panic(h, "sorted[index]: index out of bounds")
     ELSE [h EXCEPT !.scratch_set =
             {h.sorted[h.entities[id] + 1] : id \in ids}
               \cup {e \in h.external_parents : e \notin live}]

\* RemoveEntity without self.scratch_set.insert(entity)
RemoveEntity_NotRecorded(h, i, entity) ==
  LET has_parent == Has(h.current_parent, entity)
      parent_entity == h.current_parent[entity]
      detach == /\ has_parent
                /\ Has(h.children, parent_entity)
                /\ Position(h.children[parent_entity], entity) >= 0
      ch1 == IF detach
             THEN [h.children EXCEPT ![parent_entity] = SwapRemove(@, Position(@, entity))]
             ELSE h.children
  IN [h EXCEPT !.min_index = IF i < @ THEN i ELSE @,
               !.sorted = RemoveAt(@, i),
               !.children = Del(ch1, entity),
               !.current_parent = Del(@, entity),
               !.entities = Del(@, entity)]

\* the body of `if remove { ... }` for the entity at position i
RemoveEntity(h, i, entity) ==
  LET has_parent == Has(h.current_parent, entity)
      parent_entity == h.current_parent[entity]
      detach == /\ has_parent
                /\ Has(h.children, parent_entity)
                /\ Position(h.children[parent_entity], entity) >= 0
      ch1 == IF detach
             THEN [h.children EXCEPT ![parent_entity] = SwapRemove(@, Position(@, entity))]
             ELSE h.children
  IN [h EXCEPT !.min_index = IF i < @ THEN i ELSE @,
               !.scratch_set = @ \cup {entity},
               !.sorted = RemoveAt(@, i),
               !.children = Del(ch1, entity),
               !.current_parent = Del(@, entity),
               !.entities = Del(@, entity)]

\* while i < self.sorted.len() { ... }
RECURSIVE RemovalScan(_, _)
RemovalScan(h, i) ==
  IF i >= Len(h.sorted) THEN h
  ELSE LET entity == h.sorted[i + 1]
           remove == \/ entity \in h.scratch_set
                     \/ /\ Has(h.current_parent, entity)
                        /\ h.current_parent[entity] \in h.scratch_set
       IN IF remove
          THEN RemovalScan(RemoveEntity(h, i, entity), i)
          ELSE RemovalScan(h, i + 1)

RemovedEvents(ord) == [k \in 1..Len(ord) |-> [type |-> "Removed", entity |-> ord[k]]]

\* reindex from min_index, then one Removed event per member of the scratch
\* set, in the iteration order ord of the HashSet
RemovalFinish(h, ord) ==
  [h EXCEPT !.entities = ReindexRange(h.entities, h.sorted, h.min_index, Len(h.sorted)),
            !.changed = @ \o RemovedEvents(ord),
            !.external_parents = @ \ h.scratch_set]

\* the removal phase up to the scan
RemovalPhase(h, rem, live) ==
  LET h1 == PurgeSet(h, rem, live)
  IN IF h1.fault # "none" \/ h1.scratch_set = {} THEN h1
     ELSE RemovalScan(h1, 0)

ChildrenOf(h, e) == IF Has(h.children, e) THEN h.children[e] ELSE <<>>

\* the body of the insertion loop for one joined entity
InsertEntity(h, entity, parent_entity) ==
  LET kids == ChildrenOf(h, entity)
      missing == \E k \in 1..Len(kids) : ~Has(h.entities, kids[k])
      insert_index == IF Len(kids) > 0
                      THEN SetMin({h.entities[kids[k]] : k \in 1..Len(kids)})
                      ELSE Len(h.sorted)
      ents1 == Put(h.entities, entity, insert_index)
      srt1 == IF insert_index >= Len(h.sorted)
              THEN Append(h.sorted, entity)
              ELSE InsertAt(h.sorted, insert_index, entity)
      ents2 == IF insert_index >= Len(h.sorted)
               THEN ents1
               ELSE ReindexRange(ents1, srt1, insert_index, Len(srt1))
      ch1 == Put(h.children, parent_entity, Append(ChildrenOf(h, parent_entity), entity))
      cp1 == Put(h.current_parent, entity, parent_entity)
      ext1 == IF ~Has(cp1, parent_entity)
              THEN h.external_parents \cup {parent_entity}
              ELSE h.external_parents
  IN IF missing
     THEN Panic(h, "insert_index: unwrap on None")
     ELSE [h EXCEPT !.entities = ents2,
                    !.sorted = srt1,
                    !.children = ch1,
                    !.current_parent = cp1,
                    !.scratch_set = @ \cup {entity},
                    !.external_parents = ext1 \ {entity}]

\* (&*entities, &self.inserted, &parents).join(): ascending ids
RECURSIVE InsertionPhase(_, _, _, _, _)
InsertionPhase(h, id, ins, live, link) ==
  IF id > MaxEntities \/ h.fault # "none" THEN h
  ELSE IF id \in live /\ id \in ins /\ link[id] # None
       THEN InsertionPhase(InsertEntity(h, id, link[id]), id + 1, ins, live, link)
       ELSE InsertionPhase(h, id + 1, ins, live, link)

\* while process_index > entity_index { ... }
RECURSIVE MoveLoop(_, _, _, _)
MoveLoop(h, entity_index, process_index, offset) ==
  IF process_index <= entity_index THEN h
  ELSE IF process_index >= Len(h.sorted)
       THEN Panic(h, "sorted.remove: index out of bounds")
       ELSE LET move_entity == h.sorted[process_index + 1]
                srt == InsertAt(RemoveAt(h.sorted, process_index), entity_index, move_entity)
                next == IF /\ Has(h.current_parent, move_entity)
                           /\ Has(h.entities, h.current_parent[move_entity])
                        THEN h.entities[h.current_parent[move_entity]] + (offset + 1)
                        ELSE 0
            IN MoveLoop([h EXCEPT !.sorted = srt], entity_index, next, offset + 1)

\* fix indexes: for i in entity_index..parent_index
FixIndexes(h, entity_index, parent_index) ==
  IF parent_index > entity_index
  THEN [h EXCEPT !.entities = ReindexRange(@, h.sorted, entity_index, parent_index)]
  ELSE h

\* move entity in sorted if needed
MoveInSorted(h, entity_index, parent_index) ==
  LET h1 == MoveLoop(h, entity_index, parent_index, 0)
  IN IF h1.fault # "none" THEN h1 ELSE FixIndexes(h1, entity_index, parent_index)

\* ReparentEntity without the test `old_parent == parent_entity`
ReparentEntity_Unfiltered(h, entity, parent_entity) ==
  LET has_old == Has(h.current_parent, entity)
      old_parent == h.current_parent[entity]
  IN IF FALSE THEN h
     ELSE
       LET ch0 == IF /\ has_old
                     /\ Has(h.children, old_parent)
                     /\ Position(h.children[old_parent], entity) >= 0
                  THEN [h.children EXCEPT ![old_parent] = RemoveAt(@, Position(@, entity))]
                  ELSE h.children
           ch1 == Put(ch0, parent_entity,
                      Append(IF Has(ch0, parent_entity) THEN ch0[parent_entity] ELSE <<>>, entity))
           h1 == [h EXCEPT !.children = ch1]
       IN IF ~Has(h.entities, entity)
          THEN Panic(h1, "entity_index: unwrap on None")
          ELSE
            LET entity_index == h.entities[entity]
                h2 == IF Has(h.entities, parent_entity)
                      THEN MoveInSorted(h1, entity_index, h.entities[parent_entity])
                      ELSE h1
                cp1 == Put(h2.current_parent, entity, parent_entity)
            IN IF h2.fault # "none" THEN h2
               ELSE [h2 EXCEPT !.current_parent = cp1,
                               !.scratch_set = @ \cup {entity},
                               !.external_parents =
                                 IF ~Has(cp1, parent_entity) THEN @ \cup {parent_entity} ELSE @]

\* the body of the reparenting loop for one joined entity
ReparentEntity(h, entity, parent_entity) ==
  LET has_old == Has(h.current_parent, entity)
      old_parent == h.current_parent[entity]
  IN IF has_old /\ old_parent = parent_entity THEN h
     ELSE
       LET ch0 == IF /\ has_old
                     /\ Has(h.children, old_parent)
                     /\ Position(h.children[old_parent], entity) >= 0
                  THEN [h.children EXCEPT ![old_parent] = RemoveAt(@, Position(@, entity))]
                  ELSE h.children
           ch1 == Put(ch0, parent_entity,
                      Append(IF Has(ch0, parent_entity) THEN ch0[parent_entity] ELSE <<>>, entity))
           h1 == [h EXCEPT !.children = ch1]
       IN IF ~Has(h.entities, entity)
          THEN Panic(h1, "entity_index: unwrap on None")
          ELSE
            LET entity_index == h.entities[entity]
                h2 == IF Has(h.entities, parent_entity)
                      THEN MoveInSorted(h1, entity_index, h.entities[parent_entity])
                      ELSE h1
                cp1 == Put(h2.current_parent, entity, parent_entity)
            IN IF h2.fault # "none" THEN h2
               ELSE [h2 EXCEPT !.current_parent = cp1,
                               !.scratch_set = @ \cup {entity},
                               !.external_parents =
                                 IF ~Has(cp1, parent_entity) THEN @ \cup {parent_entity} ELSE @]

\* (&*entities, &self.modified.clone(), &parents).join(): ascending ids
RECURSIVE ReparentingPhase(_, _, _, _, _)
ReparentingPhase(h, id, mod, live, link) ==
  IF id > MaxEntities \/ h.fault # "none" THEN h
  ELSE IF id \in live /\ id \in mod /\ link[id] # None
       THEN ReparentingPhase(ReparentEntity(h, id, link[id]), id + 1, mod, live, link)
       ELSE ReparentingPhase(h, id + 1, mod, live, link)

\* for i in 0..self.sorted.len() { notify }
RECURSIVE NotifyScan(_, _)
NotifyScan(h, i) ==
  IF i >= Len(h.sorted) THEN h
  ELSE LET entity == h.sorted[i + 1]
           notify == \/ entity \in h.scratch_set
                     \/ /\ Has(h.current_parent, entity)
                        /\ h.current_parent[entity] \in h.scratch_set
       IN IF notify
          THEN NotifyScan([h EXCEPT !.scratch_set = @ \cup {entity},
                                    !.changed = Append(@, [type |-> "Modified", entity |-> entity])],
                          i + 1)
          ELSE NotifyScan(h, i + 1)

NotificationPhase(h) == IF h.scratch_set # {} THEN NotifyScan(h, 0) ELSE h

\* external parents without a children entry are dropped
PruneExternalParents(h) ==
  LET gone == {e \in h.external_parents : ~Has(h.children, e)}
  IN [h EXCEPT !.scratch_set = gone, !.external_parents = @ \ gone]

\* everything after the removal scan
AfterRemoval(h1, ord, ins, mod, live, link) ==
  LET h2 == IF h1.scratch_set # {} THEN RemovalFinish(h1, ord) ELSE h1
      h3 == InsertionPhase([h2 EXCEPT !.scratch_set = {}], 1, ins, live, link)
      h4 == ReparentingPhase(h3, 1, mod, live, link)
  IN IF h4.fault # "none" THEN h4
     ELSE PruneExternalParents(NotificationPhase(h4))

\* HierarchySystem::run.  The links the call reads have no cycle: the world
\* never builds one (the documented precondition).
Maintain ==
  /\ fault = "none"
  /\ LET h1 == RemovalPhase(Work, channel.removed, alive)
     IN \E ord \in Orderings(IF h1.fault = "none" THEN h1.scratch_set ELSE {}) :
          LET h == IF h1.fault # "none" THEN h1
                   ELSE AfterRemoval(h1, ord, channel.inserted, channel.modified, alive, parents)
          IN IF h.fault # "none"
             THEN /\ fault' = h.fault
                  /\ UNCHANGED <<index, changed, last, channel>>
             ELSE /\ sorted' = h.sorted
                  /\ entities' = h.entities
                  /\ children' = h.children
                  /\ current_parent' = h.current_parent
                  /\ external_parents' = h.external_parents
                  /\ changed' = h.changed
                  /\ channel' = EmptyChannel
                  /\ last' = Snapshot
                  /\ fault' = fault
  /\ UNCHANGED <<world, alive, parents, ops>>

Next ==
  \/ \E e \in Entity, p \in Entity : InsertParent(e, p)
  \/ \E e \in Entity, p \in Entity : ModifyParent(e, p)
  \/ \E e \in Entity : RemoveParent(e)
  \/ \E e \in Entity : DeleteEntity(e)
  \/ Maintain

Spec == Init /\ [][Next]_vars

\* A larger world: a root e1 and six entities below it, e4 a child of e1 or of
\* e2, e6 a child of e1 or of e4, e7 with or without a link.  The set-up is
\* followed by one world operation.
InitChain ==
  /\ world = Entity
  /\ alive = world
  /\ \E p4 \in {1, 2}, p6 \in {1, 4}, p7 \in {None, 1} :
       parents = [e \in Entity |-> IF e = 1 THEN None
                                   ELSE IF e = 4 THEN p4
                                   ELSE IF e = 6 THEN p6
                                   ELSE IF e = 7 THEN p7
                                   ELSE 1]
  /\ channel = [inserted |-> {e \in Entity : parents[e] # None},
                modified |-> {}, removed |-> {}]
  /\ sorted = <<>>
  /\ entities = EmptyMap
  /\ children = EmptyMap
  /\ current_parent = EmptyMap
  /\ external_parents = {}
  /\ changed = <<>>
  /\ fault = "none"
  /\ ops = MaxOps - 1
  /\ last = NoCall

SpecChain == InitChain /\ [][Next]_vars

\* ------------------------------------------------------------ the queries
\* Hierarchy::all, Hierarchy::children, Hierarchy::parent
all == sorted
children_of(e) == IF Has(children, e) THEN children[e] ELSE <<>>
parent(e) == IF Has(current_parent, e) THEN current_parent[e] ELSE None

Elems(s) == {s[i] : i \in 1..Len(s)}
\* the 0-based positions at which x occurs in s
Places(s, x) == {i - 1 : i \in {k \in 1..Len(s) : s[k] = x}}

\* a is an ancestor of e through the parent map cp (one or more steps)
Ancestor(cp, a, e) == ReachesVia(cp, e, a, MaxEntities + 1)

\* ------------------------------------------------------------------ claims

\* C1: after every maintain() call, for every entity E in all() whose current
\* parent P is also in all(), P's position is strictly less than E's position.
C1_ParentBeforeChild ==
  \A j \in 1..Len(all) :
    \A i \in 1..Len(all) :
      (Has(current_parent, all[j]) /\ all[i] = current_parent[all[j]]) => i < j

\* C2: after every maintain() call the position index maps the entity at
\* sorted[i] to i, and has no entry for an entity that is not in the sequence.
C2_PositionIndexInSync ==
  /\ \A i \in 1..Len(sorted) : Has(entities, sorted[i]) /\ entities[sorted[i]] = i - 1
  /\ DOMAIN entities \subseteq Elems(sorted)

\* ------------------------------------------------- the case a claim is about
Removed(e) == [type |-> "Removed", entity |-> e]
Modified(e) == [type |-> "Modified", entity |-> e]
Count(log, ev) == Cardinality({k \in 1..Len(log) : log[k] = ev})

\* the descendants of e through the parent map cp
Descendants(cp, e) == {d \in Entity : Ancestor(cp, e, d)}

\* the last call read no component event
EmptyBatch == last.inserted = {} /\ last.modified = {} /\ last.removed = {}
\* the entities the insertion phase of the last call joined
Joined == {e \in last.inserted : e \in last.alive /\ last.parents[e] # None}
\* the entities the reparenting phase of the last call gave another parent
Reparented ==
  {e \in last.modified \ Joined :
     /\ e \in last.alive /\ last.parents[e] # None
     /\ Has(last.current_parent, e) /\ last.current_parent[e] # last.parents[e]
     /\ Contains(sorted, e)}
\* the external parents the last call found dead
DeadExternal == {a \in last.external_parents : a \notin last.alive}
\* the entities the last call dropped from all()
Dropped == Elems(last.sorted) \ Elems(sorted)

\* C3: when a call processes the removal of a tracked entity's link, the entity
\* and all its descendants of before the call are afterwards absent from all(),
\* absent from every children() list and have no parent().  Stated for the
\* entities whose link the same batch did not insert again.
C3_CascadeComplete ==
  last.called =>
    \A e \in last.removed :
      (Contains(last.sorted, e) /\ Has(last.current_parent, e)) =>
        \A d \in ({e} \cup Descendants(last.current_parent, e)) \ Joined :
          /\ ~Contains(all, d)
          /\ \A p \in Entity : ~Contains(children_of(p), d)
          /\ parent(d) = None

\* C4: when a call changes tracked entity E's parent from A to B, B not a
\* descendant of E, then afterwards B (if in all()) is positioned before E and
\* every descendant of E is positioned after E.  Stated for a batch whose
\* only event is the modification of E's link.
C4_ReparentKeepsOrder ==
  (/\ last.called /\ last.removed = {} /\ last.inserted = {} /\ DeadExternal = {}
   /\ Cardinality(last.modified) = 1) =>
    \A E \in Reparented :
      LET B == last.parents[E]
      IN (~Ancestor(last.current_parent, E, B) /\ ~Ancestor(current_parent, E, B)) =>
           /\ \A i \in Places(all, B), j \in Places(all, E) : i < j
           /\ \A d \in Descendants(current_parent, E) :
                \A i \in Places(all, E), j \in Places(all, d) : i < j

\* C5: no step of maintain() performs a failing lookup or an out-of-range access.
C5_MaintainIsTotal == fault = "none"

\* C6: a call drops an entity from all() only if its link is in the removed
\* set, or an ancestor's link is, or an ancestor is an external parent that is
\* no longer live; the survivors keep their relative order (stated for a batch
\* that modifies no link, and for the entities it does not insert again).
C6_RemovalIsPrecise ==
  last.called =>
    /\ \A e \in Dropped :
         \/ e \in last.removed
         \/ \E a \in Entity :
              /\ Ancestor(last.current_parent, a, e)
              /\ a \in last.removed \cup DeadExternal
    /\ last.modified = {} =>
         \A x, y \in (Elems(last.sorted) \cap Elems(sorted)) \ Joined :
           (\E i \in Places(last.sorted, x), j \in Places(last.sorted, y) : i < j)
             => (\A i \in Places(sorted, x), j \in Places(sorted, y) : i < j)

\* C7: after a call, no entity in all() has as an ancestor an external parent
\* that was reported dead during that call.  Stated for the entities the call
\* found tracked and for a batch without component events.
C7_DanglingParentsResolved ==
  (last.called /\ EmptyBatch) =>
    \A e \in Elems(all) : \A a \in DeadExternal : ~Ancestor(last.current_parent, a, e)

\* C8: every entity a call drops from all() has exactly one Removed event in
\* the events of that call, and no entity has more than one.
C8_OneRemovedEvent ==
  last.called =>
    /\ \A e \in Dropped : Count(changed, Removed(e)) = 1
    /\ \A e \in Entity : Count(changed, Removed(e)) <= 1

\* a call dropped two or more entities, one of them by the cascade alone
C8_Witness ==
  /\ last.called
  /\ Cardinality(Dropped) >= 2
  /\ \E e \in Dropped : e \notin last.removed /\ Count(changed, Removed(e)) = 1

\* C9: a call whose inserted, modified and removed sets are empty leaves the
\* sorted sequence, the position index, the children map, the current-parent
\* map and the external-parents set unchanged and appends no event.
C9_NoOpTick ==
  (last.called /\ EmptyBatch) =>
    /\ sorted = last.sorted
    /\ entities = last.entities
    /\ children = last.children
    /\ current_parent = last.current_parent
    /\ external_parents = last.external_parents
    /\ changed = <<>>

\* C9 as amended: ... and in which every external parent is still alive ...
C9_NoOpTickAllAlive ==
  (last.called /\ EmptyBatch /\ DeadExternal = {}) =>
    /\ sorted = last.sorted
    /\ entities = last.entities
    /\ children = last.children
    /\ current_parent = last.current_parent
    /\ external_parents = last.external_parents
    /\ changed = <<>>

\* a call without events, with every external parent alive, on an index that
\* tracks entities under an external parent
C9_Witness ==
  /\ last.called /\ EmptyBatch /\ DeadExternal = {}
  /\ Len(last.sorted) >= 2
  /\ last.external_parents # {}
  /\ sorted = last.sorted

\* the entities the last call owes a Modified event
Dirty == Joined \cup Reparented
OwedModified ==
  {e \in Elems(all) : e \in Dirty \/ \E a \in Dirty : Ancestor(current_parent, a, e)}

\* C10: in each call, Modified(e) is appended exactly once for every e in all()
\* that was inserted or reparented in that call or has such an entity among
\* its ancestors, and for no other entity.
C10_ModifiedExactlyOnce ==
  last.called =>
    \A e \in Entity :
      Count(changed, Modified(e)) = IF e \in OwedModified THEN 1 ELSE 0

\* ------------------------------------------------- the recursive queries
SetMax(S) == CHOOSE m \in S : \A x \in S : m >= x

\* Hierarchy::add_children_to_set: the ids the depth-first expansion adds to
\* the set; depth counts the calls still allowed on the stack
RECURSIVE add_children_to_set(_, _, _)
add_children_to_set(entity, set, depth) ==
  IF depth = 0 \/ ~Has(children, entity) THEN set
  ELSE LET kids == Elems(children[entity])
       IN set \cup kids \cup UNION {add_children_to_set(c, {}, depth - 1) : c \in kids}

\* Hierarchy::all_children
all_children(e) == add_children_to_set(e, {}, MaxEntities + 1)

\* the expansion from e comes back to an entity it is already expanding: the
\* recursion of add_children_to_set does not end
RECURSIVE ChildPath(_, _, _)
ChildPath(from, to, depth) ==
  /\ depth > 0
  /\ Has(children, from)
  /\ \E c \in Elems(children[from]) : c = to \/ ChildPath(c, to, depth - 1)
Endless(e) ==
  \E c \in {e} \cup all_children(e) : ChildPath(c, c, MaxEntities + 1)

\* SubHierarchyIterator::process_entity
process_entity(it, child) ==
  IF ~Has(children, child) THEN it
  ELSE LET kids == Elems(children[child])
           idx == {entities[c] : c \in {k \in kids : Has(entities, k)}}
       IN [it EXCEPT !.entities = @ \cup kids,
                     !.end_index = IF idx # {} /\ SetMax(idx) > @ THEN SetMax(idx) ELSE @]

\* SubHierarchyIterator::new
SubHierarchyIterator_new(root) ==
  LET max == Len(sorted)
      kids == Elems(children_of(root))
      root_index == IF kids = {} THEN max
                    ELSE SetMin({IF Has(entities, c) THEN entities[c] ELSE max : c \in kids})
      it0 == process_entity([current_index |-> root_index, end_index |-> 0,
                             entities |-> {}, fault |-> "none"], root)
  IN IF root_index = max THEN it0
     ELSE IF root_index > max
          THEN [it0 EXCEPT !.fault = "sorted[root_index]: index out of bounds"]
          ELSE process_entity(it0, sorted[root_index + 1])

\* the while !found_next loop of next()
RECURSIVE FindNext(_)
FindNext(it) ==
  LET it1 == [it EXCEPT !.current_index = @ + 1]
  IN IF it1.current_index > it1.end_index \/ it1.current_index >= Len(sorted) THEN it1
     ELSE IF sorted[it1.current_index + 1] \in it1.entities
          THEN process_entity(it1, sorted[it1.current_index + 1])
          ELSE FindNext(it1)

\* the entities the iterator yields until next() returns None
RECURSIVE Drain(_)
Drain(it) ==
  IF it.current_index >= Len(sorted) \/ it.current_index > it.end_index THEN <<>>
  ELSE <<sorted[it.current_index + 1]>> \o Drain(FindNext(it))

\* Hierarchy::all_children_iter, collected
all_children_iter(e) ==
  LET it == SubHierarchyIterator_new(e)
  IN IF it.fault # "none" THEN <<>> ELSE Drain(it)

\* s lists its entities in the relative order they have in all()
InOrderOfAll(s) ==
  \A i, j \in 1..Len(s) :
    i < j => \A a \in Places(all, s[i]), b \in Places(all, s[j]) : a < b

\* C11: for every entity e, all_children_iter(e) yields each entity of
\* all_children(e) exactly once and nothing else, never yields e, and yields
\* the entities in the relative order they have in all().
C11_IterEqualsAllChildren ==
  \A e \in Entity :
    LET it == SubHierarchyIterator_new(e)
        out == all_children_iter(e)
    IN /\ it.fault = "none"
       /\ Elems(out) = all_children(e)
       /\ \A d \in Elems(out) : Cardinality(Places(out, d)) = 1
       /\ e \notin Elems(out)
       /\ InOrderOfAll(out)

\* C12: all_children(e) holds exactly the tracked entities whose current-parent
\* chain reaches e in one or more steps, never e, and the expansion ends; it
\* is empty for an entity without children.
C12_AllChildrenIsDescendants ==
  \A e \in Entity :
    /\ ~Endless(e)
    /\ all_children(e) = {d \in Elems(all) : Ancestor(current_parent, e, d)}
    /\ e \notin all_children(e)
    /\ (children_of(e) = <<>> => all_children(e) = {})

\* C13: after every maintain() call, parent(e) is not None exactly when e
\* appears in all(), no entity appears in all() more than once, and the position
\* index maps no two entities of all() to the same position.
C13_UniquePosition ==
  /\ \A e \in Entity : (parent(e) # None) <=> Contains(all, e)
  /\ \A e \in Entity : Cardinality(Places(all, e)) <= 1
  /\ \A x, y \in Elems(all) :
       (x # y /\ Has(entities, x) /\ Has(entities, y)) => entities[x] # entities[y]

\* C14: after every maintain() call, every entity in all() carries a parent
\* link in the store, and parent(e) is the entity that link resolves to.
C14_MirrorsLinkStore ==
  last.called =>
    \A e \in Elems(all) : parents[e] # None /\ parent(e) = parents[e]

\* ------------------------------------------- the steps of the last call
\* the index the last call started from
LastWork ==
  [sorted |-> last.sorted, entities |-> last.entities, children |-> last.children,
   current_parent |-> last.current_parent, external_parents |-> last.external_parents,
   scratch_set |-> {}, changed |-> <<>>, min_index |-> USIZE_MAX, fault |-> "none"]

\* the index of the last call when its insertion phase began (the events of
\* the removal phase are left out)
BeforeInsertion ==
  LET h0 == PurgeSet(LastWork, last.removed, last.alive)
      h1 == IF h0.scratch_set = {} THEN h0 ELSE RemovalScan(h0, 0)
      h2 == IF h1.scratch_set # {} THEN RemovalFinish(h1, <<>>) ELSE h1
  IN [h2 EXCEPT !.scratch_set = {}]

\* the index of the last call when its reparenting phase began
BeforeReparenting ==
  InsertionPhase(BeforeInsertion, 1, last.inserted, last.alive, last.parents)

\* the insertion of entity into h put it before each of its recorded children,
\* or at the end when it had none
PlacedFirst(h, entity, after) ==
  LET kids == ChildrenOf(h, entity)
  IN IF Len(kids) > 0
     THEN \A k \in 1..Len(kids) :
            \A i \in Places(after.sorted, entity), j \in Places(after.sorted, kids[k]) : i < j
     ELSE after.sorted = Append(h.sorted, entity)

\* every step of the insertion loop from id on placed its entity first
RECURSIVE InsertionPlacesFirst(_, _, _, _, _)
InsertionPlacesFirst(h, id, ins, live, link) ==
  IF id > MaxEntities \/ h.fault # "none" THEN TRUE
  ELSE IF id \in live /\ id \in ins /\ link[id] # None
       THEN LET after == InsertEntity(h, id, link[id])
            IN /\ after.fault = "none" => PlacedFirst(h, id, after)
               /\ InsertionPlacesFirst(after, id + 1, ins, live, link)
       ELSE InsertionPlacesFirst(h, id + 1, ins, live, link)

RECURSIVE ReparentingFilters(_, _, _, _, _)
ReparentingFilters(h, id, mod, live, link) ==
  IF id > MaxEntities \/ h.fault # "none" THEN TRUE
  ELSE IF id \in live /\ id \in mod /\ link[id] # None
       THEN LET after == ReparentEntity(h, id, link[id])
            IN /\ (Has(h.current_parent, id) /\ h.current_parent[id] = link[id]) => after = h
               /\ ReparentingFilters(after, id + 1, mod, live, link)
       ELSE ReparentingFilters(h, id + 1, mod, live, link)

\* the only event of the last call was the modification of a tracked entity
\* whose link resolves to its recorded parent
OnlyUnchangedModified ==
  /\ last.called /\ last.inserted = {} /\ last.removed = {}
  /\ \E e \in Entity :
       /\ last.modified = {e}
       /\ e \in last.alive /\ Contains(last.sorted, e)
       /\ Has(last.current_parent, e) /\ last.parents[e] = last.current_parent[e]

\* the last call changed no map and not the sequence, and appended no Modified
Untouched ==
  /\ sorted = last.sorted
  /\ entities = last.entities
  /\ children = last.children
  /\ current_parent = last.current_parent
  /\ external_parents = last.external_parents
  /\ \A x \in Entity : Count(changed, Modified(x)) = 0

\* C16: processing a modified tracked entity whose link resolves to its
\* recorded current parent changes no index state and does not mark it dirty;
\* if it is the only event of the call, all maps and the sorted sequence are
\* unchanged and no Modified event is appended.
C16_UnchangedParentFiltered ==
  /\ last.called =>
       ReparentingFilters(BeforeReparenting, 1, last.modified, last.alive, last.parents)
  /\ OnlyUnchangedModified => Untouched

\* C16 as amended: ... if it is the only event of the call and every external
\* parent is alive, all maps and the sorted sequence are unchanged ...
C16_UnchangedParentFilteredAllAlive ==
  /\ last.called =>
       ReparentingFilters(BeforeReparenting, 1, last.modified, last.alive, last.parents)
  /\ (OnlyUnchangedModified /\ DeadExternal = {}) => Untouched

\* a call whose only event was an unchanged link of an entity that has a
\* tracked sibling, with every external parent alive
C16_Witness ==
  /\ OnlyUnchangedModified /\ DeadExternal = {}
  /\ \E e \in last.modified : Len(last.children[last.current_parent[e]]) >= 2
  /\ Untouched

\* C17: after every maintain() call, every entity in the external-parents set
\* has at least one child in the children map: an external parent whose last
\* child was removed or reparented away in that call is no longer in the set.
C17_ChildlessExternalsPruned ==
  last.called => \A e \in external_parents : Len(children_of(e)) >= 1

\* C18: a Removed(e) event is appended only for an entity e that was in all()
\* immediately before the call that appends it; an entity that was only an
\* external parent gets no Removed event.
C18_RemovedOnlyForTracked ==
  last.called =>
    \A e \in Entity : Count(changed, Removed(e)) >= 1 => Contains(last.sorted, e)

\* x comes before y in s
Before(s, x, y) == \E i \in Places(s, x), j \in Places(s, y) : i < j

\* the entities the reparenting phase of the last call attached to a parent
Moved ==
  {e \in last.modified :
     /\ e \in last.alive /\ last.parents[e] # None
     /\ ~(Has(last.current_parent, e) /\ last.current_parent[e] = last.parents[e])}

\* the children of p that the last call neither detached nor attached
Stayed(p) ==
  (Elems(IF Has(last.children, p) THEN last.children[p] ELSE <<>>)
     \cap Elems(children_of(p))) \ (Joined \cup Moved)

\* C19: children(p) lists p's children in the order in which they were
\* attached: across a call the children that stay keep their relative order,
\* whatever child the call detached, and the children it attached come after
\* them.
C19_AttachmentOrder ==
  last.called =>
    \A p \in Entity :
      /\ \A x, y \in Stayed(p) :
           Before(last.children[p], x, y) => ~Before(children_of(p), y, x)
      /\ \A x \in Stayed(p), y \in Elems(children_of(p)) \ Stayed(p) :
           ~Before(children_of(p), y, x)

\* C20: after every maintain() call, c appears in children(p) exactly when
\* parent(c) = p, no children list holds the same entity twice, and every
\* entity listed in a children list is in all().
C20_ChildrenAgreeWithParent ==
  /\ \A p, c \in Entity : Contains(children_of(p), c) <=> parent(c) = p
  /\ \A p, c \in Entity : Cardinality(Places(children_of(p), c)) <= 1
  /\ \A p \in Entity : Elems(children_of(p)) \subseteq Elems(all)

\* C21: after every maintain() call, the current parent of every entity in
\* all() is itself in all() or a member of the external-parents set, and no
\* member of the external-parents set is in all().
C21_UntrackedParentsWatched ==
  /\ \A e \in Elems(all) :
       /\ Has(current_parent, e)
       /\ current_parent[e] \in Elems(all) \cup external_parents
  /\ external_parents \cap Elems(all) = {}

\* the new parent B of a reparented entity and the ancestors of B
Chain(h, B) == {B} \cup {a \in Entity : Ancestor(h.current_parent, a, B)}

\* the step from h to after relocated nothing outside the set moved: the other
\* entities keep their relative order
OthersKeepOrder(h, after, moved) ==
  \A x, y \in Elems(h.sorted) \ moved :
    (\E i \in Places(h.sorted, x), j \in Places(h.sorted, y) : i < j)
      => (\A i \in Places(after.sorted, x), j \in Places(after.sorted, y) : i < j)

\* every step of the reparenting loop from id on that met an entity placed
\* before its new parent relocated the chain of the new parent only
RECURSIVE ReparentingMovesChain(_, _, _, _, _)
ReparentingMovesChain(h, id, mod, live, link) ==
  IF id > MaxEntities \/ h.fault # "none" THEN TRUE
  ELSE IF id \in live /\ id \in mod /\ link[id] # None
       THEN LET after == ReparentEntity(h, id, link[id])
                blocked == /\ ~(Has(h.current_parent, id) /\ h.current_parent[id] = link[id])
                           /\ Contains(h.sorted, id)
                           /\ Position(h.sorted, link[id]) > Position(h.sorted, id)
            IN /\ (blocked /\ after.fault = "none")
                    => OthersKeepOrder(h, after, Chain(h, link[id]))
               /\ ReparentingMovesChain(after, id + 1, mod, live, link)
       ELSE ReparentingMovesChain(h, id + 1, mod, live, link)

\* C22: when the reparenting phase processes entity E with new parent B
\* positioned after E, the only entities relocated are B and ancestors of B:
\* every pair of entities that are neither keeps its relative order in all().
C22_OnlyChainMoves ==
  last.called =>
    ReparentingMovesChain(BeforeReparenting, 1, last.modified, last.alive, last.parents)

\* every Removed event of the last call precedes every Modified event
RemovedFirst ==
  \A i, j \in 1..Len(changed) :
    (changed[i].type = "Modified" /\ changed[j].type = "Removed") => j < i

\* the Modified events of the last call follow the order of all()
ModifiedInOrderOfAll ==
  \A i, j \in 1..Len(changed) :
    (i < j /\ changed[i].type = "Modified" /\ changed[j].type = "Modified")
      => \A a \in Places(all, changed[i].entity), b \in Places(all, changed[j].entity) : a < b

\* the Modified event of an entity precedes those of its descendants
ModifiedAncestorFirst ==
  \A i, j \in 1..Len(changed) :
    (/\ changed[i].type = "Modified" /\ changed[j].type = "Modified"
     /\ Ancestor(current_parent, changed[i].entity, changed[j].entity)) => i < j

\* C23: among the events appended by one maintain() call, every Removed event
\* precedes every Modified event, and the Modified events appear in the
\* relative order their entities have in all() after the call, so that an
\* entity's Modified event precedes those of its descendants.
C23_EventOrder ==
  last.called => RemovedFirst /\ ModifiedInOrderOfAll /\ ModifiedAncestorFirst

\* the entities the move loop takes out and puts back, in the order of its
\* iterations (while process_index > entity_index, until it ends or fails)
RECURSIVE Moves(_, _, _, _)
Moves(h, entity_index, process_index, offset) ==
  IF process_index <= entity_index \/ process_index >= Len(h.sorted) THEN <<>>
  ELSE LET move_entity == h.sorted[process_index + 1]
           srt == InsertAt(RemoveAt(h.sorted, process_index), entity_index, move_entity)
           next == IF /\ Has(h.current_parent, move_entity)
                      /\ Has(h.entities, h.current_parent[move_entity])
                   THEN h.entities[h.current_parent[move_entity]] + (offset + 1)
                   ELSE 0
       IN <<move_entity>> \o Moves([h EXCEPT !.sorted = srt], entity_index, next, offset + 1)

\* the moves of the reparenting step that gives entity the parent B
MovesOf(h, entity, B) ==
  IF /\ ~(Has(h.current_parent, entity) /\ h.current_parent[entity] = B)
     /\ Has(h.entities, entity) /\ Has(h.entities, B)
  THEN Moves(h, h.entities[entity], h.entities[B], 0)
  ELSE <<>>

\* every step of the reparenting loop from id on moved entities of the chain
\* of the new parent only, and each of them once
RECURSIVE ReparentingMovesOnce(_, _, _, _, _)
ReparentingMovesOnce(h, id, mod, live, link) ==
  IF id > MaxEntities \/ h.fault # "none" THEN TRUE
  ELSE IF id \in live /\ id \in mod /\ link[id] # None
       THEN LET moves == MovesOf(h, id, link[id])
            IN /\ Elems(moves) \subseteq Chain(h, link[id])
               /\ \A m \in Elems(moves) : Cardinality(Places(moves, m)) = 1
               /\ ReparentingMovesOnce(ReparentEntity(h, id, link[id]), id + 1, mod, live, link)
       ELSE ReparentingMovesOnce(h, id + 1, mod, live, link)

\* C24: on acyclic links every maintain() call completes: the move loop never
\* runs past the end of the sequence, and for one modified entity it performs
\* at most one move per entity of the new parent's ancestor chain (the new
\* parent included).
C24_MoveLoopBounded ==
  /\ fault # "sorted.remove: index out of bounds"
  /\ last.called =>
       ReparentingMovesOnce(BeforeReparenting, 1, last.modified, last.alive, last.parents)

====
